---- MODULE Spec2Model ----
(***************************************************************************)
(* Model of the BluetoothTerminal class (src/unnamed/part_001): the        *)
(* connection lifecycle, the chunked text send, the fixed 11-byte control  *)
(* frame codec and the command dispatcher, over a Web-Bluetooth style      *)
(* transport whose asynchronous operations complete in any order.          *)
(*                                                                         *)
(* Representation choices                                                  *)
(*  - a JS string is a sequence of UTF-16 code units; a code unit is one   *)
(*    of the names in CodeUnits ("LF" = U+000A, "CR" = U+000D,             *)
(*    "LS" = U+2028, "HI"/"LO" = the two halves of a surrogate pair);      *)
(*  - a JS number n is the record Num(hi, lo) with n = hi * 65536 + lo and *)
(*    0 <= lo < 65536 (hi is negative for a negative n), so that 32-bit    *)
(*    values stay inside the model checker's integers;                     *)
(*  - a characteristic object is the number of the link it was resolved    *)
(*    on (1, 2, ...), 0 is null.                                           *)
(***************************************************************************)
EXTENDS Integers, Sequences, FiniteSets, TLC

VARIABLES
    _device,            \* this._device: "null" or "dev"
    _characteristic,    \* this._characteristic: 0 (null) or a handle
    _deviceId,          \* this._deviceId
    _rfIdNumber,        \* this._rfIdNumber
    _sendSeparator,     \* this._sendSeparator
    _receiveSeparator,  \* this._receiveSeparator
    _receiveBuffer,     \* this._receiveBuffer
    connected,          \* device.gatt.connected
    epoch,              \* number of links established so far
    deviceListener,     \* 'gattserverdisconnected' listener is on the device
    charListeners,      \* handles carrying the 'characteristicvaluechanged' listener
    chains,             \* the connect() / reconnect promise chains
    sends,              \* the send() calls and their promise chains
    written,            \* every writeValue() issued to the transport, in order
    rx,                 \* the notifications handled, with what each wrote
    control,            \* the _sendToDevice() calls, in order
    fnIn,               \* argument of a pure function under check
    fnOut               \* its result

program == <<_device, _characteristic, _deviceId, _rfIdNumber, _sendSeparator,
             _receiveSeparator, _receiveBuffer>>
transport == <<connected, epoch, deviceListener, charListeners>>
history == <<chains, sends, written, rx, control>>
scratch == <<fnIn, fnOut>>
vars == <<program, transport, history, scratch>>

\* ------------------------------------------------------------------ bounds
\* promise chains started in a run of the lifecycle, of the send and of the
\* dispatcher specification; send() calls and notifications in a run
MaxChains == 3
MaxSendChains == 2
MaxRxChains == 2
MaxSends == 1
MaxRx == 1
\* _sendToDevice calls after which no _startPour or _tapClosed is made
MaxControl == 1
\* promise chains started in a run of the whole-session specification
MaxSessionChains == 2

\* ------------------------------------------------------- program constants
MaxCharacteristicValueLength == 20
FromDeviceMarker == 253
ToDeviceMarker == 254
Terminator == 10
FrameLength == 11

\* ------------------------------------------------------------ JS numbers
Num(hi, lo) == [t |-> "num", hi |-> hi, lo |-> lo, s |-> <<>>]
Str(s) == [t |-> "str", hi |-> 0, lo |-> 0, s |-> s]
Null == [t |-> "null", hi |-> 0, lo |-> 0, s |-> <<>>]
Small(n) == Num(n \div 65536, n % 65536)

\* bitwise and of two naturals below 2^16
RECURSIVE And16(_, _)
And16(x, m) ==
    IF x = 0 \/ m = 0 THEN 0
    ELSE (x % 2) * (m % 2) + 2 * And16(x \div 2, m \div 2)

\* n & mask: both operands taken modulo 2^32, the result read as a signed
\* 32-bit integer; the mask is given by its two 16-bit halves
BitAnd(n, maskHi, maskLo) ==
    LET h == And16(n.hi % 65536, maskHi)
    IN  Num(IF h >= 32768 THEN h - 65536 ELSE h, And16(n.lo, maskLo))

\* v >> k for a signed 32-bit v and k in {8, 16, 24}: floor(v / 2^k)
Sar(v, k) ==
    CASE k = 24 -> v.hi \div 256
      [] k = 16 -> v.hi
      [] k = 8  -> v.hi * 256 + (v.lo \div 256)

\* a store into a Uint8Array element: the value modulo 2^8
ToUint8(i) == i % 256
NumToUint8(v) == v.lo % 256

\* t << k for a byte t and k in {8, 16, 24}, a signed 32-bit result
Shl(t, k) ==
    CASE k = 24 -> Num(IF t >= 128 THEN (t - 256) * 256 ELSE t * 256, 0)
      [] k = 16 -> Num(t, 0)
      [] k = 8  -> Num(0, t * 256)

\* a + b on JS numbers (no wrap-around: the sum of doubles)
Add(a, b) ==
    LET l == a.lo + b.lo
    IN  Num(a.hi + b.hi + (l \div 65536), l % 65536)

\* Number.prototype.toString(16) of a byte: lower-case hex, no padding
HexDigit(d) == <<"0","1","2","3","4","5","6","7","8","9","a","b","c","d","e","f">>[d + 1]
ToString16(t) ==
    IF t < 16 THEN <<HexDigit(t)>> ELSE <<HexDigit(t \div 16), HexDigit(t % 16)>>

\* ------------------------------------------------------------ JS strings
CodeUnits == {"A", "B", "LF", "CR", "LS", "HI", "LO"}

\* the regular expression atom (.|[\r\n]): '.' matches every code unit but
\* the line terminators LF, CR, U+2028, U+2029; [\r\n] adds back CR and LF
DotMatches(c) == c \notin {"LF", "CR", "LS"}
AtomMatches(c) == DotMatches(c) \/ c \in {"CR", "LF"}

\* the longest run of at most `length` matching code units starting at i
RECURSIVE GreedyRun(_, _, _)
GreedyRun(string, i, length) ==
    IF length = 0 \/ i > Len(string) \/ ~AtomMatches(string[i]) THEN 0
    ELSE 1 + GreedyRun(string, i + 1, length - 1)

\* String.prototype.match with the global flag: the successive matches, the
\* scan moving one code unit on where nothing matches
RECURSIVE MatchAll(_, _, _)
MatchAll(string, i, length) ==
    IF i > Len(string) THEN <<>>
    ELSE LET n == GreedyRun(string, i, length)
         IN  IF n = 0 THEN MatchAll(string, i + 1, length)
             ELSE <<SubSeq(string, i, i + n - 1)>> \o MatchAll(string, i + n, length)

\* the strings of at most n code units
Strings(n) == UNION {[1..k -> CodeUnits] : k \in 0..n}

\* BluetoothTerminal._splitByLength; <<>> stands for the null that match()
\* returns when nothing matched
_splitByLength(string, length) == MatchAll(string, 1, length)

\* new TextEncoder().encode(data): UTF-8, a surrogate pair is one code point
\* of four bytes, an unpaired surrogate becomes U+FFFD
RECURSIVE Utf8From(_, _)
Utf8From(data, i) ==
    IF i > Len(data) THEN <<>>
    ELSE LET c == data[i]
         IN  CASE c = "A"  -> <<65>> \o Utf8From(data, i + 1)
               [] c = "B"  -> <<66>> \o Utf8From(data, i + 1)
               [] c = "LF" -> <<10>> \o Utf8From(data, i + 1)
               [] c = "CR" -> <<13>> \o Utf8From(data, i + 1)
               [] c = "LS" -> <<226, 128, 168>> \o Utf8From(data, i + 1)
               [] c = "HI" -> IF i < Len(data) /\ data[i + 1] = "LO"
                              THEN <<240, 159, 152, 128>> \o Utf8From(data, i + 2)
                              ELSE <<239, 191, 189>> \o Utf8From(data, i + 1)
               [] c = "LO" -> <<239, 191, 189>> \o Utf8From(data, i + 1)
TextEncode(data) == Utf8From(data, 1)

RECURSIVE Concat(_)
Concat(ss) == IF ss = <<>> THEN <<>> ELSE Head(ss) \o Concat(Tail(ss))

\* ---------------------------------------------------------- control frames
\* the frame sendNew builds, with the from-device marker
EncodeFrameSendNew(command, data) ==
    << ToUint8(command),
       ToUint8(Sar(BitAnd(data, 65280, 0), 24)),
       ToUint8(Sar(BitAnd(data, 255, 0), 16)),
       ToUint8(Sar(BitAnd(data, 0, 65280), 8)),
       NumToUint8(BitAnd(data, 65280, 255)),
       0, 0, 0, 0, FromDeviceMarker, Terminator >>

\* the frame _sendToDevice builds: new Uint8Array(11) filled element by element
EncodeFrame(command, data) ==
    << ToUint8(command),
       ToUint8(Sar(BitAnd(data, 65280, 0), 24)),      \* (data & 0xFF000000) >> 24
       ToUint8(Sar(BitAnd(data, 255, 0), 16)),        \* (data & 0x00FF0000) >> 16
       ToUint8(Sar(BitAnd(data, 0, 65280), 8)),       \* (data & 0x0000FF00) >> 8
       NumToUint8(BitAnd(data, 65280, 255)),          \* (data & 0xFF0000FF)
       0, 0, 0, 0, ToDeviceMarker, Terminator >>

\* what _handleCharacteristicValueChanged reads from the notified value:
\* getUint8(0), getUint8(9) and the payload area getUint8(1) .. getUint8(8)
FrameCommand(value) == value[1]
FrameMarker(value) == value[10]

\* the `total` the handler passes on: for command 21 with marker 253 the
\* hexadecimal digits of the eight payload bytes, one after the other;
\* otherwise (t1 << 24) + (t2 << 16) + (t3 << 8) + t4
DecodePayload(value) ==
    IF FrameCommand(value) = 21 /\ FrameMarker(value) = FromDeviceMarker
    THEN Str(Concat([k \in 1..8 |-> ToString16(value[k + 1])]))
    ELSE Add(Add(Add(Shl(value[2], 24), Shl(value[3], 16)), Shl(value[4], 8)),
             Small(value[5]))

\* checkRFIDExists() returns true
CheckRFIDExists == TRUE

\* a dispatcher that stores the id and the RFID number whatever the marker
ConnectionDataReceiveAnyMarker(command, data, handsakeCommand, deviceId, rfIdNumber) ==
    [deviceId |-> IF command = 21 THEN data ELSE deviceId,
     rfIdNumber |-> IF command = 31 THEN data ELSE rfIdNumber,
     calls |-> <<>>]

\* _connectionDataReceive: the new _deviceId and _rfIdNumber and the
\* _sendToDevice calls made, in order, each <<command, data>>
ConnectionDataReceive(command, data, handsakeCommand, deviceId, rfIdNumber) ==
    LET keep == [deviceId |-> deviceId, rfIdNumber |-> rfIdNumber, calls |-> <<>>]
    IN  IF handsakeCommand # FromDeviceMarker THEN keep
        ELSE CASE command = 21 ->
                    [keep EXCEPT !.deviceId = data, !.calls = <<<<command, Small(1)>>>>]
               [] command = 31 ->
                    [keep EXCEPT !.rfIdNumber = data,
                                 !.calls = IF ~CheckRFIDExists
                                           THEN <<<<command, Small(0)>>>> ELSE <<>>]
               [] command = 41 -> [keep EXCEPT !.calls = <<<<command, Small(1)>>>>]
               [] command = 42 -> [keep EXCEPT !.calls = <<<<command, Small(2 * 1000)>>>>]
               [] command = 43 -> [keep EXCEPT !.calls = <<<<command, Small(1 * 100)>>>>]
               [] command = 44 -> [keep EXCEPT !.calls = <<<<command, Small(10 * 100)>>>>]
               [] OTHER -> keep

\* a writeValue() call as the transport sees it: the handle written to, the
\* bytes, the send() call and chunk it carries (0, 0 for a control frame),
\* whether the handle was on the live link when the write was issued, and
\* how the write ended
WriteEntry(h, bytes, msg, idx, isLive) ==
    [h |-> h, bytes |-> bytes, msg |-> msg, idx |-> idx, live |-> isLive,
     st |-> "pending"]

\* a _sendToDevice(command, data) call: its arguments, the place in `written`
\* of the writeValue() it issued (0 when writeValue was never reached), and
\* whether its catch block passed an error to _log
ControlCall(command, data, p, logged) ==
    [command |-> command, data |-> data, p |-> p, logged |-> logged]
ControlCalls(calls, characteristic, base) ==
    [k \in 1..Len(calls) |->
        IF characteristic = 0
        THEN ControlCall(calls[k][1], calls[k][2], 0, TRUE)
        ELSE ControlCall(calls[k][1], calls[k][2], base + k, FALSE)]

\* _sendToDevice(command, data) for each call in turn: with a cached
\* characteristic one writeValue of the frame; with none the TypeError is
\* caught and logged and nothing is written
SendToDevice(calls, characteristic, isLive) ==
    IF characteristic = 0 THEN <<>>
    ELSE [k \in 1..Len(calls) |->
            WriteEntry(characteristic, EncodeFrame(calls[k][1], calls[k][2]), 0, 0, isLive)]

\* ------------------------------------------------------------------ inputs
\* the texts handed to send(): one chunk, three chunks, and one holding U+2028
ShortText == <<"A", "B">>
LongText == [k \in 1..45 |-> IF k % 3 = 0 THEN "B" ELSE "A"]
LineSepText == <<"A", "LS", "B">>
SendData == {Null, Str(<<>>), Str(ShortText), Str(LongText), Str(LineSepText)}

\* the notified values: every command of the table with the from-device
\* marker, two with another marker, and payloads with the top bit set
RxFrame(command, payload, marker) == <<command>> \o payload \o <<marker, Terminator>>
RxCommands == {21, 31, 32, 33, 34, 35, 36, 41, 42, 43, 44, 51, 45, 99}
RxFrames ==
    {RxFrame(c, <<0, 0, 0, 1, 0, 0, 0, 0>>, FromDeviceMarker) : c \in RxCommands}
    \cup {RxFrame(c, <<0, 0, 0, 1, 0, 0, 0, 0>>, ToDeviceMarker) : c \in {21, 31, 41}}
    \cup {RxFrame(c, <<128, 0, 7, 208, 0, 0, 0, 0>>, FromDeviceMarker) : c \in {21, 31}}

\* ------------------------------------------------------------ promise chains
\* a connect() or automatic-reconnect chain: the step it waits on (pc), the
\* link its server object belongs to (ep), the characteristic handed to
\* _startNotifications (ch), whether the pending transport call was issued on
\* the live link (live), the step that failed (err), whether the chain
\* was started while an earlier reconnect chain was still pending (racing),
\* and whether a catch handler passed its error to _log (logged)
Chain(kind, pc, racing) ==
    [kind |-> kind, pc |-> pc, ep |-> 0, ch |-> 0, live |-> FALSE, err |-> "",
     racing |-> racing, logged |-> FALSE]
Pending(c) == c.pc \in {"start", "request", "gatt", "services", "char", "notify"}
Settled(c, pc, step) ==
    [c EXCEPT !.pc = pc, !.err = step, !.ep = 0, !.ch = 0, !.live = FALSE]
Rejected(c, step) == [Settled(c, "rejected", step) EXCEPT !.logged = TRUE]
Fulfilled(c) == Settled(c, "fulfilled", "")

\* _startNotifications(characteristic): characteristic.startNotifications() is
\* issued and the chain waits for it
StartNotifications(c, characteristic) ==
    [c EXCEPT !.pc = "notify", !.ch = characteristic,
              !.live = connected /\ characteristic = epoch]

\* _connectDeviceAndCacheCharacteristic(device), first part: the remembered
\* characteristic of a connected device resolves at once and the chain goes on
\* to _startNotifications; otherwise device.gatt.connect() is issued
ConnectDeviceAndCacheCharacteristic(c) ==
    IF connected /\ _characteristic # 0
    THEN StartNotifications(c, _characteristic)
    ELSE [c EXCEPT !.pc = "gatt"]

\* ---------------------------------------------------------------- the state
\* argument and result of a pure function under check: a string, a length or
\* command, a number; the chunks or the frame, the command and number read back
NoArgument == [s |-> <<>>, n |-> 0, v |-> Null]
NoResult == [done |-> FALSE, seqs |-> <<>>, n |-> 0, v |-> Null]

\* the state the constructor leaves, no link and nothing in flight
Constructed ==
    /\ _device = "null"
    /\ _characteristic = 0
    /\ _deviceId = Null
    /\ _rfIdNumber = Null
    /\ _sendSeparator = "LF"
    /\ _receiveSeparator = "LF"
    /\ _receiveBuffer = <<>>
    /\ connected = FALSE
    /\ epoch = 0
    /\ deviceListener = FALSE
    /\ charListeners = {}
    /\ chains = <<>>
    /\ sends = <<>>
    /\ written = <<>>
    /\ rx = <<>>
    /\ control = <<>>

Init ==
    /\ Constructed
    /\ fnIn = NoArgument
    /\ fnOut = NoResult

\* connect(): with a remembered device the chain starts from
\* Promise.resolve(device); with none navigator.bluetooth.requestDevice() is
\* issued, and where that call throws, _requestBluetoothDevice logs the
\* exception and returns undefined, and connect() itself throws
Connect(limit) ==
    /\ Len(chains) < limit
    /\ \E apiThrows \in BOOLEAN :
         chains' = Append(chains,
            IF _device # "null" THEN Chain("connect", "start", FALSE)
            ELSE IF apiThrows
                 THEN [Chain("connect", "threw", FALSE) EXCEPT !.logged = TRUE]
            ELSE Chain("connect", "request", FALSE))
    /\ UNCHANGED <<program, transport, sends, written, rx, control, scratch>>

\* the first then-callback of a chain started from Promise.resolve(device)
ConnectResume(c) ==
    /\ chains[c].pc = "start"
    /\ chains' = [chains EXCEPT ![c] = ConnectDeviceAndCacheCharacteristic(@)]
    /\ UNCHANGED <<program, transport, sends, written, rx, control, scratch>>

\* requestDevice() settles: the device is remembered and the disconnect
\* listener added, then _connectDeviceAndCacheCharacteristic runs
RequestDeviceSettled(c, ok) ==
    /\ chains[c].pc = "request"
    /\ IF ok
       THEN /\ _device' = "dev"
            /\ deviceListener' = TRUE
            /\ chains' = [chains EXCEPT ![c] = ConnectDeviceAndCacheCharacteristic(@)]
       ELSE /\ chains' = [chains EXCEPT ![c] = Rejected(@, "request")]
            /\ UNCHANGED <<_device, deviceListener>>
    /\ UNCHANGED <<_characteristic, _deviceId, _rfIdNumber, _sendSeparator,
                   _receiveSeparator, _receiveBuffer, connected, epoch,
                   charListeners, sends, written, rx, control, scratch>>

\* device.gatt.connect() settles; on success server.getPrimaryServices() is issued
GattConnectSettled(c, ok) ==
    /\ chains[c].pc = "gatt"
    /\ IF ok
       THEN /\ connected' = TRUE
            /\ epoch' = IF connected THEN epoch ELSE epoch + 1
            /\ chains' = [chains EXCEPT ![c] =
                            [@ EXCEPT !.pc = "services", !.ep = epoch', !.live = TRUE]]
       ELSE /\ chains' = [chains EXCEPT ![c] = Rejected(@, "gatt")]
            /\ UNCHANGED <<connected, epoch>>
    /\ UNCHANGED <<program, deviceListener, charListeners, sends, written, rx, control, scratch>>

\* getPrimaryServices() settles; on success getCharacteristic() is issued on
\* the last service
ServicesSettled(c, ok) ==
    /\ chains[c].pc = "services"
    /\ ok => chains[c].live
    /\ chains' = [chains EXCEPT ![c] =
                    IF ok THEN [@ EXCEPT !.pc = "char",
                                          !.live = connected /\ chains[c].ep = epoch]
                    ELSE Rejected(@, "services")]
    /\ UNCHANGED <<program, transport, sends, written, rx, control, scratch>>

\* getCharacteristic() settles: the characteristic is remembered and
\* _startNotifications(characteristic) runs
CharacteristicSettled(c, ok) ==
    /\ chains[c].pc = "char"
    /\ ok => chains[c].live
    /\ IF ok
       THEN /\ _characteristic' = chains[c].ep
            /\ chains' = [chains EXCEPT ![c] = StartNotifications(@, @.ep)]
       ELSE /\ chains' = [chains EXCEPT ![c] = Rejected(@, "char")]
            /\ UNCHANGED _characteristic
    /\ UNCHANGED <<_device, _deviceId, _rfIdNumber, _sendSeparator, _receiveSeparator,
                   _receiveBuffer, transport, sends, written, rx, control, scratch>>

\* startNotifications() settles: the value-change listener is added to the
\* characteristic the chain carries and the chain is fulfilled
NotificationsSettled(c, ok) ==
    /\ chains[c].pc = "notify"
    /\ ok => chains[c].live
    /\ IF ok
       THEN /\ charListeners' = charListeners \cup {chains[c].ch}
            /\ chains' = [chains EXCEPT ![c] = Fulfilled(@)]
       ELSE /\ chains' = [chains EXCEPT ![c] = Rejected(@, "notify")]
            /\ UNCHANGED charListeners
    /\ UNCHANGED <<program, connected, epoch, deviceListener, sends, written, rx, control, scratch>>

\* disconnect(): _disconnectFromDevice(this._device), then the cached
\* characteristic loses its listener and is forgotten, then the device is
DisconnectFromDevice ==
    IF _device = "null"
    THEN UNCHANGED <<deviceListener, connected>>
    ELSE /\ deviceListener' = FALSE
         /\ connected' = FALSE
Disconnect ==
    /\ DisconnectFromDevice
    /\ charListeners' = IF _characteristic # 0
                        THEN charListeners \ {_characteristic} ELSE charListeners
    /\ _characteristic' = 0
    /\ _device' = "null"
    /\ UNCHANGED <<_deviceId, _rfIdNumber, _sendSeparator, _receiveSeparator,
                   _receiveBuffer, epoch, history, scratch>>

\* a reconnect that starts from device discovery
HandleDisconnectionRediscover ==
    chains' = Append(chains, Chain("reconnect", "request", FALSE))

\* the link drops; a registered _handleDisconnection starts a reconnect chain
\* with _connectDeviceAndCacheCharacteristic(event.target): the device is not
\* connected at that point, so device.gatt.connect() is issued
HandleDisconnection ==
    chains' = Append(chains,
        Chain("reconnect", "gatt",
              \E k \in DOMAIN chains : chains[k].kind = "reconnect" /\ Pending(chains[k])))
LinkLost(limit) ==
    /\ connected
    /\ connected' = FALSE
    /\ IF deviceListener
       THEN Len(chains) < limit /\ HandleDisconnection
       ELSE UNCHANGED chains
    /\ UNCHANGED <<program, epoch, deviceListener, charListeners, sends, written, rx,
                   control, scratch>>

\* ---------------------------------------------------------------- send(data)
\* String(data || '')
Coerce(data) == IF data.t = "str" THEN data.s ELSE <<>>

\* a send() call: its argument, its chunks, the chunk whose write is pending
\* (i), and how its promise stands
SendRecord(data, chunks, i, st, err) ==
    [data |-> data, chunks |-> chunks, i |-> i, st |-> st, err |-> err]

\* send() without its first early return
SendPreconditionNoEmptyCheck(text, characteristic) ==
    IF characteristic = 0 THEN "nodevice" ELSE "ok"

\* the two early returns of send(): "empty" when the coerced data is empty,
\* "nodevice" when no characteristic is cached, otherwise "ok"
SendPrecondition(text, characteristic) ==
    IF text = <<>> THEN "empty"
    ELSE IF characteristic = 0 THEN "nodevice"
    ELSE "ok"

Send(data) ==
    /\ Len(sends) < MaxSends
    /\ LET text == Coerce(data)
           chunks == _splitByLength(text \o <<_sendSeparator>>,
                                    MaxCharacteristicValueLength)
           pre == SendPrecondition(text, _characteristic)
           m == Len(sends) + 1
       IN  IF pre # "ok"
           THEN /\ sends' = Append(sends,
                      SendRecord(data, IF pre = "empty" THEN <<>> ELSE chunks, 0,
                                 "rejected", pre))
                /\ UNCHANGED written
           ELSE IF chunks = <<>>
           THEN \* chunks is null: chunks[0] throws a TypeError out of send()
                /\ sends' = Append(sends, SendRecord(data, chunks, 0, "threw", "typeerror"))
                /\ UNCHANGED written
           ELSE /\ sends' = Append(sends, SendRecord(data, chunks, 1, "pending", ""))
                /\ written' = Append(written,
                      WriteEntry(_characteristic, TextEncode(chunks[1]), m, 1,
                                 connected /\ _characteristic = epoch))
    /\ UNCHANGED <<program, transport, chains, rx, control, scratch>>

\* the next chunk chained on the settling of a write, fulfilled or not
ChunkOutcomeOnSettle(sent, ok, characteristic) ==
    IF sent.i = Len(sent.chunks) THEN (IF ok THEN "resolved" ELSE "transport")
    ELSE IF characteristic = 0 THEN "disconnected"
    ELSE "write"

\* what the send() chain does when the write of chunk sent.i settles: a failed
\* write rejects it ("transport"); the last chunk fulfilled resolves it
\* ("resolved"); otherwise the then-callback chained for the next chunk runs
\* and either rejects ("disconnected", no characteristic) or writes ("write")
ChunkOutcome(sent, ok, characteristic) ==
    IF ~ok THEN "transport"
    ELSE IF sent.i = Len(sent.chunks) THEN "resolved"
    ELSE IF characteristic = 0 THEN "disconnected"
    ELSE "write"

\* a writeValue() promise settles. A control frame's promise has no handler;
\* a chunk's write moves the send() chain on (the write attempted after
\* reject() throws inside the executor and is ignored)
WriteSettled(p, ok) ==
    /\ written[p].st = "pending"
    /\ ok => written[p].live
    /\ LET w == [written[p] EXCEPT !.st = IF ok THEN "ok" ELSE "failed"]
           m == w.msg
           settled == [written EXCEPT ![p] = w]
       IN  IF m = 0
           THEN /\ written' = settled
                /\ UNCHANGED sends
           ELSE LET outcome == ChunkOutcome(sends[m], ok, _characteristic)
                IN  IF outcome = "write"
                    THEN /\ sends' = [sends EXCEPT ![m] = [@ EXCEPT !.i = @ + 1]]
                         /\ written' = Append(settled,
                               WriteEntry(_characteristic,
                                          TextEncode(sends[m].chunks[sends[m].i + 1]), m,
                                          sends[m].i + 1,
                                          connected /\ _characteristic = epoch))
                    ELSE /\ written' = settled
                         /\ sends' = [sends EXCEPT ![m] =
                               IF outcome = "resolved" THEN [@ EXCEPT !.st = "resolved"]
                               ELSE [@ EXCEPT !.st = "rejected", !.err = outcome]]
    /\ UNCHANGED <<program, transport, chains, rx, control, scratch>>

\* ------------------------------------------------------------ notifications
\* the reads the handler makes before anything else: getUint8(0), getUint8(9)
\* and getUint8(1) .. getUint8(8); DataView.getUint8 throws a RangeError for
\* an offset past the end of the value
ReadsInRange(value) == Len(value) >= 10

\* what is kept of a notification handled: the value, the _sendToDevice calls
\* made and the frames written, the DeviceState after it, the receive()
\* callbacks made, and whether the handler threw
RxRecord(value, calls, replies, deviceId, rfIdNumber, received, threw) ==
    [value |-> value, calls |-> calls, replies |-> replies, deviceId |-> deviceId,
     rfIdNumber |-> rfIdNumber, received |-> received, threw |-> threw]

\* _handleCharacteristicValueChanged on a value notified by the live
\* characteristic: decode, dispatch, write the replies. The handler reads the
\* value as a control frame whatever its length; this.receive is never called
\* and _receiveBuffer never written (the text path is commented out)
HandleCharacteristicValueChanged(value) ==
    /\ Len(rx) < MaxRx
    /\ connected /\ epoch \in charListeners
    /\ IF ~ReadsInRange(value)
       THEN /\ rx' = Append(rx, RxRecord(value, <<>>, <<>>, _deviceId, _rfIdNumber,
                                         <<>>, TRUE))
            /\ UNCHANGED <<_deviceId, _rfIdNumber, written, control>>
       ELSE LET d == ConnectionDataReceive(FrameCommand(value), DecodePayload(value),
                                           FrameMarker(value), _deviceId, _rfIdNumber)
                replies == SendToDevice(d.calls, _characteristic,
                                        connected /\ _characteristic = epoch)
            IN  /\ _deviceId' = d.deviceId
                /\ _rfIdNumber' = d.rfIdNumber
                /\ written' = written \o replies
                /\ control' = control \o ControlCalls(d.calls, _characteristic,
                                                      Len(written))
                /\ rx' = Append(rx,
                      RxRecord(value, d.calls,
                               [k \in DOMAIN replies |-> replies[k].bytes],
                               d.deviceId, d.rfIdNumber, <<>>, FALSE))
    /\ UNCHANGED <<_device, _characteristic, _sendSeparator, _receiveSeparator,
                   _receiveBuffer, transport, chains, sends, scratch>>

\* _startPour() and _tapClosed(): one _sendToDevice call each
HostCommand(command, data) ==
    /\ Len(control) < MaxControl
    /\ written' = written \o SendToDevice(<<<<command, data>>>>, _characteristic,
                                          connected /\ _characteristic = epoch)
    /\ control' = control \o ControlCalls(<<<<command, data>>>>, _characteristic,
                                          Len(written))
    /\ UNCHANGED <<program, transport, chains, sends, rx, scratch>>
_startPour == HostCommand(31, Small(1))
_tapClosed == HostCommand(45, Small(1))

\* getDeviceName(): '' with no remembered device, else device.name
DeviceName == <<"A", "B">>
GetDeviceName == IF _device = "null" THEN <<>> ELSE DeviceName

\* ------------------------------------------------------------------ setters
\* a length check that only refuses the empty string
SeparatorCheckNotEmpty(separator) ==
    IF separator.t # "str" THEN "type"
    ELSE IF Len(separator.s) < 1 THEN "length"
    ELSE "ok"
\* the two checks of setReceiveSeparator and setSendSeparator: "type" when the
\* argument is not a string, "length" when its length is not 1, else "ok"
SeparatorCheck(separator) ==
    IF separator.t # "str" THEN "type"
    ELSE IF Len(separator.s) # 1 THEN "length"
    ELSE "ok"

\* a setter call: fnIn keeps the argument (v) and which setter it was (n: 1
\* the receive, 2 the send separator), fnOut whether it returned (done) or
\* threw (n = 1)
SetterCall(which, separator) ==
    /\ fnIn' = [NoArgument EXCEPT !.n = which, !.v = separator]
    /\ fnOut' = [NoResult EXCEPT !.done = SeparatorCheck(separator) = "ok",
                                 !.n = IF SeparatorCheck(separator) = "ok" THEN 0 ELSE 1]
SetReceiveSeparator(separator) ==
    /\ SetterCall(1, separator)
    /\ _receiveSeparator' = IF SeparatorCheck(separator) = "ok"
                            THEN separator.s[1] ELSE _receiveSeparator
    /\ UNCHANGED <<_device, _characteristic, _deviceId, _rfIdNumber, _sendSeparator,
                   _receiveBuffer, transport, history>>
SetSendSeparator(separator) ==
    /\ SetterCall(2, separator)
    /\ _sendSeparator' = IF SeparatorCheck(separator) = "ok"
                         THEN separator.s[1] ELSE _sendSeparator
    /\ UNCHANGED <<_device, _characteristic, _deviceId, _rfIdNumber, _receiveSeparator,
                   _receiveBuffer, transport, history>>

\* ------------------------------------------------------------ specification
\* the session lifecycle: connect(), disconnect(), the link dropping, and the
\* transport settling the calls of the connect and reconnect chains
Lifecycle(limit) ==
    \/ Connect(limit)
    \/ \E c \in DOMAIN chains : ConnectResume(c)
    \/ \E c \in DOMAIN chains, ok \in BOOLEAN : RequestDeviceSettled(c, ok)
    \/ \E c \in DOMAIN chains, ok \in BOOLEAN : GattConnectSettled(c, ok)
    \/ \E c \in DOMAIN chains, ok \in BOOLEAN : ServicesSettled(c, ok)
    \/ \E c \in DOMAIN chains, ok \in BOOLEAN : CharacteristicSettled(c, ok)
    \/ \E c \in DOMAIN chains, ok \in BOOLEAN : NotificationsSettled(c, ok)
    \/ Disconnect
    \/ LinkLost(limit)

Next == Lifecycle(MaxChains)
Spec == Init /\ [][Next]_vars

\* the lifecycle with send() calls and their writes
NextSend ==
    \/ Lifecycle(MaxSendChains)
    \/ \E data \in SendData : Send(data)
    \/ \E p \in DOMAIN written, ok \in BOOLEAN : WriteSettled(p, ok)
SpecSend == Init /\ [][NextSend]_vars

\* the lifecycle with inbound notifications and the replies written
NextDispatch ==
    \/ Lifecycle(MaxRxChains)
    \/ \E value \in RxFrames : HandleCharacteristicValueChanged(value)
    \/ \E p \in DOMAIN written, ok \in BOOLEAN : WriteSettled(p, ok)
SpecDispatch == Init /\ [][NextDispatch]_vars

\* the lifecycle with notifications whose length is not that of a control
\* frame: the text "hi\n", text with no separator, twelve bytes of text, and
\* twelve bytes that begin like a handshake frame
RxTexts ==
    { <<104, 105, 10>>, <<104, 105>>,
      <<65, 65, 65, 65, 65, 65, 65, 65, 65, 65, 65, 10>>,
      <<21, 0, 0, 0, 1, 0, 0, 0, 0, 253, 10, 10>> }
NextReceive ==
    \/ Lifecycle(MaxRxChains)
    \/ \E value \in RxTexts : HandleCharacteristicValueChanged(value)
SpecReceive == Init /\ [][NextReceive]_vars

\* the whole session: the lifecycle, send(), notifications, _startPour() and
\* _tapClosed(), and the transport settling the writes
SessionFrames ==
    {RxFrame(c, <<0, 0, 0, 1, 0, 0, 0, 0>>, FromDeviceMarker) : c \in {21, 31, 41, 42, 43, 44, 51}}
    \cup {RxFrame(c, <<0, 0, 0, 1, 0, 0, 0, 0>>, ToDeviceMarker) : c \in {21, 31}}
NextSession ==
    \/ Lifecycle(MaxSessionChains)
    \/ \E data \in {Null, Str(ShortText)} : Send(data)
    \/ \E value \in SessionFrames : HandleCharacteristicValueChanged(value)
    \/ _startPour
    \/ _tapClosed
    \/ \E p \in DOMAIN written, ok \in BOOLEAN : WriteSettled(p, ok)
SpecSession == Init /\ [][NextSession]_vars

\* send() together with the host commands: the chunk writes of a message and
\* the control frames of _startPour() and _tapClosed() on one characteristic
NextOutbound ==
    \/ Lifecycle(MaxSendChains)
    \/ \E data \in SendData : Send(data)
    \/ _startPour
    \/ _tapClosed
    \/ \E p \in DOMAIN written, ok \in BOOLEAN : WriteSettled(p, ok)
SpecOutbound == Init /\ [][NextOutbound]_vars

\* the separator setters, called with every string of at most two code units
\* and with a value that is not a string
Separators == {Str(str) : str \in Strings(2)} \cup {Null}
NextSeparator ==
    \/ \E separator \in Separators : SetReceiveSeparator(separator)
    \/ \E separator \in Separators : SetSendSeparator(separator)
SpecSeparator == Init /\ [][NextSeparator]_vars

\* ------------------------------------------------------ the pure functions
MaxLen == 3

\* _splitByLength on every string of at most MaxLen code units and every
\* chunk length up to MaxLen
InitSplit ==
    /\ Constructed
    /\ fnIn \in {[s |-> str, n |-> length, v |-> Null] :
                   str \in Strings(MaxLen), length \in 1..MaxLen}
    /\ fnOut = NoResult
SplitByLength ==
    /\ ~fnOut.done
    /\ fnOut' = [NoResult EXCEPT !.done = TRUE, !.seqs = _splitByLength(fnIn.s, fnIn.n)]
    /\ UNCHANGED <<program, transport, history, fnIn>>
NextSplit == SplitByLength
SpecSplit == InitSplit /\ [][NextSplit]_vars

\* the frame codec: _sendToDevice's encoding of a command and a payload, read
\* back as _handleCharacteristicValueChanged reads a notified value
Payloads ==
    {Num(0, 0), Num(0, 1), Num(0, 255), Num(0, 256), Num(0, 2000), Num(0, 65535),
     Num(1, 0), Num(258, 772), Num(32767, 65535), Num(32768, 0), Num(32768, 1),
     Num(65280, 255), Num(65535, 65535)}
Commands == {0, 21, 31, 41, 42, 43, 44, 45, 255}
InitCodec ==
    /\ Constructed
    /\ fnIn \in {[s |-> <<>>, n |-> c, v |-> payload] : c \in Commands, payload \in Payloads}
    /\ fnOut = NoResult
Encode ==
    /\ fnOut = NoResult
    /\ fnOut' = [NoResult EXCEPT !.seqs = <<EncodeFrame(fnIn.n, fnIn.v)>>]
    /\ UNCHANGED <<program, transport, history, fnIn>>
Decode ==
    /\ ~fnOut.done /\ fnOut.seqs # <<>>
    /\ fnOut' = [fnOut EXCEPT !.done = TRUE, !.n = FrameCommand(fnOut.seqs[1]),
                              !.v = DecodePayload(fnOut.seqs[1])]
    /\ UNCHANGED <<program, transport, history, fnIn>>
NextCodec == Encode \/ Decode
SpecCodec == InitCodec /\ [][NextCodec]_vars

\* ------------------------------------------------------------------ claims
ChunkWrites(m) == {q \in DOMAIN written : written[q].msg = m}

\* C1: the chunk writes of one send() call reach the transport in index
\* order, each carrying its chunk, and the write of chunk i + 1 is issued only
\* after the write of chunk i was fulfilled.
C1_ChunksWrittenInSequence ==
    \A q \in DOMAIN written :
        written[q].msg > 0 =>
            LET m == written[q].msg
                i == written[q].idx
                earlier == {p \in ChunkWrites(m) : p < q}
            IN  /\ written[q].bytes = TextEncode(sends[m].chunks[i])
                /\ \A p \in earlier : written[p].idx < i
                /\ IF i = 1 THEN earlier = {}
                   ELSE \E p \in earlier : written[p].idx = i - 1 /\ written[p].st = "ok"
\* all three chunks of the long text were written and fulfilled
C1_Witness ==
    \E m \in DOMAIN sends :
        /\ sends[m].st = "resolved" /\ Len(sends[m].chunks) = 3
        /\ Cardinality(ChunkWrites(m)) = 3

\* C2: when the link is lost (disconnect() or a disconnect event) between the
\* write of chunk i and the write of chunk i + 1, no chunk after i is written
\* (a chunk written on the live link is followed only by a chunk written on
\* that same live link), and a chain that stops before its last chunk with no
\* failed write is rejected as disconnected.
C2_NoChunkAfterLinkLoss ==
    /\ \A p, q \in DOMAIN written :
          ( /\ written[p].msg > 0 /\ written[q].msg = written[p].msg
            /\ written[q].idx = written[p].idx + 1 /\ written[p].live )
          => (written[q].live /\ written[q].h = written[p].h)
    /\ \A m \in DOMAIN sends :
          ( /\ sends[m].st = "rejected" /\ ChunkWrites(m) # {}
            /\ \A q \in ChunkWrites(m) : written[q].st = "ok" )
          => sends[m].err = "disconnected"

\* C3: a send() whose data is empty after coercion ('' or null), or that finds
\* no cached characteristic, returns a rejected promise, issues no write and
\* leaves device, characteristic and DeviceState as they were.
C3_SendRejectsWithoutWriting ==
    [][ Len(sends') = Len(sends) + 1 =>
          LET call == sends'[Len(sends')]
          IN  (call.data \in {Null, Str(<<>>)} \/ _characteristic = 0) =>
                  /\ call.st = "rejected"
                  /\ written' = written
                  /\ UNCHANGED <<_device, _characteristic, _deviceId, _rfIdNumber>> ]_vars
\* send(null) was rejected while a characteristic was cached on a live link
C3_Witness ==
    \E m \in DOMAIN sends :
        /\ sends[m].data = Null /\ sends[m].st = "rejected"
        /\ _characteristic # 0 /\ connected /\ written = <<>>

\* C4: split(M, L) yields non-empty chunks of at most L code units whose
\* concatenation is M, whatever code units M holds.
C4_SplitPreservesMessage ==
    fnOut.done =>
        /\ \A k \in DOMAIN fnOut.seqs :
              Len(fnOut.seqs[k]) >= 1 /\ Len(fnOut.seqs[k]) <= fnIn.n
        /\ Concat(fnOut.seqs) = fnIn.s

\* C5: decoding the frame encode(c, p) built gives back the command c and the
\* payload p, for every p in [0, 2^32).
C5_CodecRoundTrip ==
    fnOut.done => (fnOut.n = fnIn.n /\ fnOut.v = fnIn.v)

\* C6: a received frame with command 21 and marker 253 stores the announced id
\* as deviceId and writes back exactly one frame (21, payload 1, marker 254);
\* for the bytes [21,0,0,0,1,0,0,0,0,253,10] the stored deviceId is 1.
C6_HandshakeStoresIdAndReplies ==
    \A k \in DOMAIN rx :
        (FrameCommand(rx[k].value) = 21 /\ FrameMarker(rx[k].value) = 253) =>
            /\ rx[k].replies = <<<<21, 0, 0, 0, 1, 0, 0, 0, 0, 254, 10>>>>
            /\ rx[k].value = <<21, 0, 0, 0, 1, 0, 0, 0, 0, 253, 10>>
                   => rx[k].deviceId = Small(1)

\* the frames the command table of the specification asks for
TableReply(command, b3, b4) == <<<<command, 0, 0, b3, b4, 0, 0, 0, 0, 254, 10>>>>
TableReplies(value) ==
    IF FrameMarker(value) # 253 THEN <<>>
    ELSE CASE FrameCommand(value) = 21 -> TableReply(21, 0, 1)
           [] FrameCommand(value) = 41 -> TableReply(41, 0, 1)
           [] FrameCommand(value) = 42 -> TableReply(42, 7, 208)
           [] FrameCommand(value) = 43 -> TableReply(43, 0, 100)
           [] FrameCommand(value) = 44 -> TableReply(44, 3, 232)
           [] OTHER -> <<>>

\* C7: the replies written for a received frame are exactly those of the
\* command table: none for a marker other than 253; one reply (41, 1),
\* (42, 2000), (43, 100), (44, 1000), (21, 1) for those commands; for 31 a
\* reply only when RFID validation fails (it never does); none for 32..36, 51
\* and unrecognized commands.
C7_RepliesFollowTable ==
    \A k \in DOMAIN rx : rx[k].replies = TableReplies(rx[k].value)

\* C8: connect() resolves only after the connection was opened, the
\* characteristic cached, notifications started and the value-change handler
\* registered; when a step fails connect() rejects and the session is back in
\* Idle, nothing of the failed attempt remaining: no cached characteristic,
\* no remembered device, no disconnect or value-change handler. (Stated for a
\* connect() that is the only chain of the session.)
C8_ConnectSettlesCleanly ==
    [][ \A c \in DOMAIN chains :
          (chains[c].kind = "connect" /\ Pending(chains[c])) =>
              /\ chains'[c].pc = "fulfilled" =>
                    /\ chains[c].pc = "notify"
                    /\ chains[c].ch \in charListeners'
              /\ (chains'[c].pc = "rejected" /\ Len(chains) = 1) =>
                    /\ _device' = "null"
                    /\ _characteristic' = 0
                    /\ ~deviceListener'
                    /\ charListeners' = {} ]_vars

\* C9: when disconnect() returns, from any state, the value-change handler is
\* off the characteristic that was cached, the disconnect handler is off the
\* device, the transport connection is closed, and the cached device and
\* characteristic are both null.
C9_DisconnectClearsSession ==
    [][ Disconnect =>
          /\ _characteristic # 0 => _characteristic \notin charListeners'
          /\ ~deviceListener'
          /\ ~connected'
          /\ _device' = "null"
          /\ _characteristic' = 0 ]_vars

\* C10: when a disconnect event fired while an automatic reconnect was still
\* in progress, then, all asynchronous steps settled and no connect() made
\* since, the session is Disconnected, not Active: it is not on a live link
\* with a cached characteristic that carries the value-change handler.
C10_DisconnectedAfterRacingReconnect ==
    ( /\ \A c \in DOMAIN chains : ~Pending(chains[c])
      /\ \E c \in DOMAIN chains :
            /\ chains[c].kind = "reconnect" /\ chains[c].racing
            /\ \A d \in DOMAIN chains : d > c => chains[d].kind = "reconnect" )
    => ~(connected /\ _characteristic = epoch /\ _characteristic \in charListeners)

\* the messages a text holds, each the bytes before one separator
RECURSIVE MessagesIn(_, _, _)
MessagesIn(bytes, separator, acc) ==
    IF bytes = <<>> THEN <<>>
    ELSE IF Head(bytes) = separator
         THEN <<acc>> \o MessagesIn(Tail(bytes), separator, <<>>)
         ELSE MessagesIn(Tail(bytes), separator, Append(acc, Head(bytes)))

\* C11: a notification whose length is not that of a control frame is handled
\* as text: it is not dispatched as a frame, the handler does not fail, each
\* run of characters ended by the receive separator (line feed, byte 10) is
\* delivered to receive() exactly once, and "h","i","\n" leaves the buffer
\* empty.
C11_TextDeliveredToReceive ==
    \A k \in DOMAIN rx :
        Len(rx[k].value) # FrameLength =>
            /\ ~rx[k].threw
            /\ rx[k].calls = <<>>
            /\ rx[k].deviceId = Null
            /\ rx[k].received = MessagesIn(rx[k].value, Terminator, <<>>)
            /\ rx[k].value = <<104, 105, 10>> => _receiveBuffer = <<>>

\* C12: with every connect and reconnect chain settled and the link down,
\* getDeviceName() returns the empty string.
C12_NameEmptyUnlessConnected ==
    (~connected /\ \A c \in DOMAIN chains : ~Pending(chains[c]))
        => GetDeviceName = <<>>

\* C13: after disconnect(), and after a disconnect event, deviceId and
\* rfidNumber are both null.
C13_DeviceStateResetOnDisconnect ==
    [][ (Disconnect \/ (connected /\ ~connected'))
            => (_deviceId' = Null /\ _rfIdNumber' = Null) ]_vars

\* C14: a setter called with a string of length 1 returns and that string is
\* the separator it sets, the other separator untouched; called with anything
\* else (the empty string, a longer string) it throws and both separators
\* stay as they were.
C14_SettersValidateLength ==
    [][ LET arg == fnIn'.v
            valid == arg.t = "str" /\ Len(arg.s) = 1
        IN  IF valid
            THEN /\ fnOut'.done /\ fnOut'.n = 0
                 /\ IF fnIn'.n = 1
                    THEN _receiveSeparator' = arg.s[1] /\ UNCHANGED _sendSeparator
                    ELSE _sendSeparator' = arg.s[1] /\ UNCHANGED _receiveSeparator
            ELSE /\ ~fnOut'.done /\ fnOut'.n = 1
                 /\ UNCHANGED <<_receiveSeparator, _sendSeparator>> ]_vars
\* setSendSeparator threw on a two-unit string after both separators had been
\* set to something else than the default
C14_Witness ==
    /\ fnIn.n = 2 /\ fnIn.v.t = "str" /\ Len(fnIn.v.s) = 2 /\ fnOut.n = 1
    /\ _sendSeparator = "A" /\ _receiveSeparator = "CR"

BigEndian(data) == <<data.hi \div 256, data.hi % 256, data.lo \div 256, data.lo % 256>>

\* C16: every control frame written (a dispatcher reply, _startPour's 31 with
\* payload 1, _tapClosed's 45 with payload 1) has 11 bytes: the command, the
\* payload as four big-endian bytes in 0..255, four zero bytes, 254, 10; and
\* every write that is not a chunk of a send() is such a frame.
C16_ControlFramesWellFormed ==
    /\ \A k \in DOMAIN control :
          control[k].p > 0 =>
              LET bytes == written[control[k].p].bytes
              IN  /\ Len(bytes) = 11
                  /\ \A j \in 1..11 : bytes[j] \in 0..255
                  /\ bytes = <<control[k].command>> \o BigEndian(control[k].data)
                                 \o <<0, 0, 0, 0, 254, 10>>
    /\ \A q \in DOMAIN written :
          written[q].msg = 0 => \E k \in DOMAIN control : control[k].p = q
\* _tapClosed's frame and the reply to the volume query were both written
C16_Witness ==
    /\ \E k \in DOMAIN control : control[k].command = 45 /\ control[k].p > 0
    /\ \E k \in DOMAIN control :
          /\ control[k].command = 42 /\ control[k].p > 0
          /\ written[control[k].p].bytes = <<42, 0, 0, 7, 208, 0, 0, 0, 0, 254, 10>>

\* C17: deviceId changes only in a step that handles a frame with marker 253
\* and command 21, rfidNumber only in one that handles a frame with marker 253
\* and command 31; no other frame and no send(), _startPour(), _tapClosed() or
\* connect() changes either.
C17_DeviceStateOnlyByDispatcher ==
    [][ LET handled(command) ==
                /\ Len(rx') = Len(rx) + 1
                /\ FrameMarker(rx'[Len(rx')].value) = 253
                /\ FrameCommand(rx'[Len(rx')].value) = command
        IN  /\ _deviceId' # _deviceId => handled(21)
            /\ _rfIdNumber' # _rfIdNumber => handled(31) ]_vars
\* the RFID frame was handled after a send() and a host command, and of the
\* two fields only rfidNumber is set
C17_Witness ==
    /\ _rfIdNumber = Small(1) /\ _deviceId = Null
    /\ \E m \in DOMAIN sends : sends[m].st = "resolved"
    /\ control # <<>> /\ rx # <<>>

\* C18: the value-change handler is registered on at most one characteristic,
\* and while a characteristic is cached on no other than that one.
C18_HandlerOnCachedCharacteristicOnly ==
    /\ Cardinality(charListeners) <= 1
    /\ _characteristic # 0 => \A h \in charListeners : h = _characteristic

\* C19: every _sendToDevice call whose write failed, at once (no cached
\* characteristic) or when the transport settled it, has a log record.
C19_ControlWriteFailuresLogged ==
    \A k \in DOMAIN control :
        (control[k].p = 0 \/ written[control[k].p].st = "failed")
            => control[k].logged

\* C20: for a chunk length of 2 or more, no chunk ends with the high surrogate
\* of a pair whose low surrogate begins the next chunk.
C20_SplitKeepsSurrogatePairs ==
    (fnOut.done /\ fnIn.n >= 2) =>
        \A k \in 1..(Len(fnOut.seqs) - 1) :
            ~( /\ fnOut.seqs[k][Len(fnOut.seqs[k])] = "HI"
               /\ fnOut.seqs[k + 1][1] = "LO" )

\* C21: a cached characteristic implies a remembered device, and with no
\* remembered device (after disconnect(), until a connect() has its device) no
\* value-change handler is on the characteristic of a live link.
C21_NothingCachedAfterDisconnect ==
    /\ _characteristic # 0 => _device # "null"
    /\ _device = "null" => ~(connected /\ epoch \in charListeners)

\* C22: the chunk writes of one send() are contiguous on the transport: no
\* write of another message and no control frame lies between two of them.
C22_WritesNotInterleaved ==
    \A p, q, r \in DOMAIN written :
        ( /\ p < q /\ q < r
          /\ written[p].msg > 0 /\ written[r].msg = written[p].msg )
        => written[q].msg = written[p].msg

====
